---- MODULE Spec2Model ----
(***************************************************************************)
(* A model of the dialogue simulation and evaluation pipeline:             *)
(*   dialogue.py  Dialogue.add, format_as_messages                         *)
(*   simulate.py  simulated_dialogue                                       *)
(*   eval.py      Eval, eval_by_participant, eval_by_observer,             *)
(*                eval_on_characters                                       *)
(* Python exceptions are modelled as values: every operation returns       *)
(* either its result or the name of the exception that leaves it.          *)
(***************************************************************************)
EXTENDS Integers, Sequences, FiniteSets, TLC

VARIABLES simIn, simOut,
          fmtIn, fmtOut,
          evals, evalErr,
          askIn, askOut,
          saved_dialogues, saved_evalsum, camp,
          dialogue_objs, addCall

vars == <<simIn, simOut, fmtIn, fmtOut, evals, evalErr, askIn, askOut,
          saved_dialogues, saved_evalsum, camp, dialogue_objs, addCall>>

simVars  == <<simIn, simOut>>
fmtVars  == <<fmtIn, fmtOut>>
heapVars == <<evals, evalErr>>
askVars  == <<askIn, askOut>>
campVars == <<saved_dialogues, saved_evalsum, camp>>
addVars  == <<dialogue_objs, addCall>>

\* The value of a variable that the specification at hand does not use, and
\* of an output before the call has been made.
Idle == [exc |-> "idle"]

----------------------------------------------------------------------------
(* Bounds                                                                  *)

MaxTurns == 3
MaxPrefix == 1

----------------------------------------------------------------------------
(* dialogue.py: Dialogue                                                   *)

\* A turn is a dict with exactly the keys 'speaker' and 'content'.
Turn(speaker, content) == [speaker |-> speaker, content |-> content]

\* Dialogue.add with the new turn put first.
DialogueAdd_Prepend(d, speaker, content) == <<Turn(speaker, content)>> \o d

\* Dialogue.add: a new tuple, the receiver's turns followed by the new turn.
DialogueAdd(d, speaker, content) == d \o <<Turn(speaker, content)>>

\* {turn['speaker'] for turn in d}
Speakers(d) == {d[i].speaker : i \in 1..Len(d)}

----------------------------------------------------------------------------
(* Agents (agents.py is not part of the sources at hand)                   *)

\* The conversation_starters attribute of an agent: missing, None, or a list.
AbsentAttr == [kind |-> "absent", list |-> <<>>]
NoneAttr   == [kind |-> "none",   list |-> <<>>]
ListAttr(l) == [kind |-> "list",  list |-> l]

Agent(name, starters) == [name |-> name, conversation_starters |-> starters]

\* Agent.respond: the dialogue with the agent's own reply appended under its
\* own name.  The reply text is the agent's (or the LLM's) choice.
Respond(agent, d, reply) == DialogueAdd(d, agent.name, reply)

----------------------------------------------------------------------------
(* simulate.py: simulated_dialogue                                         *)

Ok(v)      == [exc |-> "none", val |-> v]
Raised(e)  == [exc |-> e, val |-> <<>>]

\* b.conversation_starters followed by random.choice(starters); pick is the
\* index random.choice draws.  A missing attribute raises AttributeError,
\* None has no len() (TypeError), an empty list raises IndexError.
ChooseStarter(b, pick) ==
    LET s == b.conversation_starters IN
    CASE s.kind = "absent" -> Raised("AttributeError")
      [] s.kind = "none"   -> Raised("TypeError")
      [] s.kind = "list" /\ Len(s.list) = 0 -> Raised("IndexError")
      [] OTHER -> Ok(s.list[((pick - 1) % Len(s.list)) + 1])

\* except (AttributeError, TypeError, ValueError): pass
StarterCaught == {"AttributeError", "TypeError", "ValueError"}

\* while turns > 0: d = a.respond(d); turns -= 1; a, b = b, a
RECURSIVE RespondLoop(_, _, _, _, _)
RespondLoop(a, b, turns, d, replies) ==
    IF turns > 0
    THEN RespondLoop(b, a, turns - 1, Respond(a, d, Head(replies)), Tail(replies))
    ELSE d

\* The whole of simulated_dialogue.  replies holds the reply texts the agents
\* will produce, in order (at least as many as there are turns to take).
simulated_dialogue(a, b, turns, prefix, starter, pick, replies) ==
    IF starter
    THEN LET c == ChooseStarter(b, pick) IN
         IF c.exc = "none"
         THEN Ok(RespondLoop(b, a, turns - 1, DialogueAdd(prefix, a.name, c.val), replies))
         ELSE IF c.exc \in StarterCaught
              THEN Ok(RespondLoop(a, b, turns, prefix, replies))
              ELSE Raised(c.exc)
    ELSE Ok(RespondLoop(a, b, turns, prefix, replies))

----------------------------------------------------------------------------
(* Inputs of the simulator                                                 *)

AgentNames == {"Alice", "Bob"}
Replies == {"r1", "r2"}

StarterAttrs == {AbsentAttr, NoneAttr, ListAttr(<<>>), ListAttr(<<"X">>),
                 ListAttr(<<"X", "Y">>)}

Agents == {Agent(n, s) : n \in AgentNames, s \in StarterAttrs}

RECURSIVE SeqsUpTo(_, _)
SeqsUpTo(S, n) ==
    IF n = 0 THEN {<<>>}
    ELSE LET shorter == SeqsUpTo(S, n - 1) IN
         shorter \cup {Append(s, x) : s \in {t \in shorter : Len(t) = n - 1}, x \in S}

RECURSIVE SeqsOfLen(_, _)
SeqsOfLen(S, n) ==
    IF n <= 0 THEN {<<>>}
    ELSE {Append(s, x) : s \in SeqsOfLen(S, n - 1), x \in S}

Prefixes == SeqsUpTo({Turn(n, "p") : n \in AgentNames}, MaxPrefix)

SimInputs == [a : Agents, b : Agents, turns : 0..MaxTurns,
              prefix : Prefixes, starter : BOOLEAN]

SimInit ==
    /\ simIn \in SimInputs
    /\ simOut = Idle
    /\ fmtIn = Idle /\ fmtOut = Idle
    /\ dialogue_objs = <<>> /\ addCall = Idle
    /\ evals = <<>> /\ evalErr = Idle
    /\ askIn = Idle /\ askOut = Idle
    /\ saved_dialogues = <<>> /\ saved_evalsum = <<>> /\ camp = Idle

\* One call of simulated_dialogue on the drawn inputs.  The random pick and
\* the agents' replies are recorded beside the result.
SimCall ==
    /\ simOut = Idle
    /\ \E pick \in 1..2, replies \in SeqsOfLen(Replies, simIn.turns) :
         simOut' = [res |-> simulated_dialogue(simIn.a, simIn.b, simIn.turns,
                                               simIn.prefix, simIn.starter,
                                               pick, replies),
                    pick |-> pick, replies |-> replies, exc |-> "done"]
    /\ UNCHANGED <<simIn, fmtVars, heapVars, askVars, campVars, addVars>>

SimNext == SimCall

SpecSim == SimInit /\ [][SimNext]_vars

----------------------------------------------------------------------------
(* Claims about simulated_dialogue                                         *)

SimDone == simOut.exc = "done"

NoStarters(b) ==
    \/ b.conversation_starters.kind = "absent"
    \/ b.conversation_starters.kind = "list" /\ Len(b.conversation_starters.list) = 0

HasStarters(b) ==
    b.conversation_starters.kind = "list" /\ Len(b.conversation_starters.list) > 0

\* C1: with starter=true and an agent b whose conversation_starters list is
\* empty or absent, the call raises nothing, injects no starter turn and
\* appends exactly turn_count response turns to the prefix: the result is the
\* one the same call with starter=false gives.
C1_NoStartersLikePlain ==
    (SimDone /\ simIn.starter /\ NoStarters(simIn.b)) =>
        /\ simOut.res.exc = "none"
        /\ simOut.res = simulated_dialogue(simIn.a, simIn.b, simIn.turns, simIn.prefix,
                                           FALSE, simOut.pick, simOut.replies)
        /\ Len(simOut.res.val) = Len(simIn.prefix) + simIn.turns

\* C2: with starter=true, an empty prefix and an agent b with a non-empty
\* conversation_starters list, for every turn_count >= 0 the first turn of
\* the result is one of b's starters said under a's name and the result has
\* exactly turn_count turns.
C2_StarterCountsAsTurn ==
    (SimDone /\ simIn.starter /\ simIn.prefix = <<>> /\ HasStarters(simIn.b)) =>
        /\ simOut.res.exc = "none"
        /\ Len(simOut.res.val) >= 1
        /\ simOut.res.val[1].speaker = simIn.a.name
        /\ \E i \in 1..Len(simIn.b.conversation_starters.list) :
              simOut.res.val[1].content = simIn.b.conversation_starters.list[i]
        /\ Len(simOut.res.val) = simIn.turns

----------------------------------------------------------------------------
(* eval.py: Eval                                                           *)

\* A dict is a function on its key set; the empty dict is <<>>.
Get(c, k) == IF k \in DOMAIN c THEN c[k] ELSE 0

\* collections.Counter.__add__: per-key sums over the union of the keys,
\* keeping only the keys whose sum is positive.
CounterAdd(c1, c2) ==
    LET sum(k) == Get(c1, k) + Get(c2, k) IN
    [k \in {x \in DOMAIN c1 \cup DOMAIN c2 : sum(x) > 0} |-> sum(k)]

\* collections.Counter.__iadd__: self[k] += count for each item of other,
\* then _keep_positive() removes every key whose count is not positive.
CounterIAdd(c1, c2) ==
    LET added == [k \in DOMAIN c1 \cup DOMAIN c2 |-> Get(c1, k) + Get(c2, k)] IN
    [k \in {x \in DOMAIN added : added[x] > 0} |-> added[k]]

\* An optional argument: None, or a value.  (None carries a placeholder of
\* the argument's type.)
None == [given |-> FALSE, val |-> <<>>]
NoneBool == [given |-> FALSE, val |-> FALSE]
NoneStr == [given |-> FALSE, val |-> ""]
Some(v) == [given |-> TRUE, val |-> v]

\* comments[key] += val for each key of the second mapping, on top of the
\* first (a defaultdict(list): a missing key starts as the empty list).
CommentsExtend(c1, c2) ==
    [k \in DOMAIN c1 \cup DOMAIN c2 |->
        (IF k \in DOMAIN c1 THEN c1[k] ELSE <<>>) \o
        (IF k \in DOMAIN c2 THEN c2[k] ELSE <<>>)]

\* Eval.__init__(comments, scores, denoms): scores=None is the empty Counter,
\* denoms=None gives every scored key the denominator 1, and differing key
\* sets raise ValueError.
EvalInit(comments, scores, denoms) ==
    LET sc == IF scores.given THEN scores.val ELSE <<>>
        dn == IF denoms.given THEN denoms.val ELSE [k \in DOMAIN sc |-> 1]
    IN  IF DOMAIN sc # DOMAIN dn
        THEN Raised("ValueError")
        ELSE Ok([comments |-> comments, scores |-> sc, denoms |-> dn])

\* A variant of += that forgets the line self.denoms += other.denoms.
EvalIAdd_NoDenoms(self, other) ==
    [comments |-> CommentsExtend(self.comments, other.comments),
     scores   |-> CounterIAdd(self.scores, other.scores),
     denoms   |-> self.denoms]

\* Eval.__iadd__: both Counters and the comment lists are updated in place;
\* nothing is checked afterwards.
EvalIAdd(self, other) ==
    [comments |-> CommentsExtend(self.comments, other.comments),
     scores   |-> CounterIAdd(self.scores, other.scores),
     denoms   |-> CounterIAdd(self.denoms, other.denoms)]

\* Eval.__add__: a new Eval built by the constructor from the summed Counters.
EvalAdd(self, other) ==
    EvalInit(CommentsExtend(self.comments, other.comments),
             Some(CounterAdd(self.scores, other.scores)),
             Some(CounterAdd(self.denoms, other.denoms)))

\* The quotients of Eval.mean are kept exact: n/d is the pair <<n', d'>> in
\* lowest terms with d' > 0.
Abs(n) == IF n < 0 THEN 0 - n ELSE n

RECURSIVE Gcd(_, _)
Gcd(m, n) == IF n = 0 THEN m ELSE Gcd(n, m % n)

Frac(n, d) ==
    LET g == Gcd(Abs(n), Abs(d))
        sign == IF d < 0 THEN 0 - 1 ELSE 1
    IN  <<sign * (n \div g), sign * (d \div g)>>

FracAdd(x, y) == Frac(x[1] * y[2] + y[1] * x[2], x[2] * y[2])

\* sum(m.values())
RECURSIVE FracSum(_, _)
FracSum(m, ks) ==
    IF ks = {} THEN Frac(0, 1)
    ELSE LET k == CHOOSE x \in ks : TRUE IN FracAdd(m[k], FracSum(m, ks \ {k}))

\* Eval.mean: scores[k]/denoms[k] for every key of scores (a key missing from
\* the Counter denoms counts 0, and dividing by 0 raises ZeroDivisionError),
\* then m['TOTAL'] = sum(m.values()).
Mean(self) ==
    IF \E k \in DOMAIN self.scores : Get(self.denoms, k) = 0
    THEN Raised("ZeroDivisionError")
    ELSE LET m == [k \in DOMAIN self.scores |-> Frac(self.scores[k], self.denoms[k])]
         IN  Ok([k \in DOMAIN m \cup {"TOTAL"} |->
                   IF k = "TOTAL" THEN FracSum(m, DOMAIN m) ELSE m[k]])

----------------------------------------------------------------------------
(* Eval objects built by the constructor, + and +=                         *)

MaxEvals == 2
MaxScore == 2
MaxDenom == 2

Keys == {"a", "b"}

Maps(vals) == UNION {[ks -> vals] : ks \in SUBSET Keys}

ScoreArgs == {None} \cup {Some(m) : m \in Maps(0..1)}
DenomArgs == {None} \cup {Some(m) : m \in Maps(0..1)}

InRange(e) ==
    /\ \A k \in DOMAIN e.scores : e.scores[k] <= MaxScore
    /\ \A k \in DOMAIN e.denoms : e.denoms[k] <= MaxDenom

HeapInit ==
    /\ evals = <<>> /\ evalErr = Idle
    /\ simIn = Idle /\ simOut = Idle
    /\ fmtIn = Idle /\ fmtOut = Idle
    /\ dialogue_objs = <<>> /\ addCall = Idle
    /\ askIn = Idle /\ askOut = Idle
    /\ saved_dialogues = <<>> /\ saved_evalsum = <<>> /\ camp = Idle

\* e = Eval({}, scores, denoms)
HeapNew ==
    /\ Len(evals) < MaxEvals
    /\ \E scores \in ScoreArgs, denoms \in DenomArgs :
         LET r == EvalInit(<<>>, scores, denoms) IN
         /\ evals' = IF r.exc = "none" THEN Append(evals, r.val) ELSE evals
         /\ evalErr' = [exc |-> r.exc, op |-> "init",
                        mismatch |-> denoms.given /\ DOMAIN denoms.val # DOMAIN scores.val]
    /\ UNCHANGED <<simVars, fmtVars, askVars, campVars, addVars>>

\* e = evals[i] + evals[j]
HeapAdd ==
    /\ Len(evals) < MaxEvals
    /\ \E i \in 1..Len(evals), j \in 1..Len(evals) :
         LET r == EvalAdd(evals[i], evals[j]) IN
         /\ r.exc = "none" => InRange(r.val)
         /\ evals' = IF r.exc = "none" THEN Append(evals, r.val) ELSE evals
         /\ evalErr' = [exc |-> r.exc, op |-> "add", mismatch |-> FALSE]
    /\ UNCHANGED <<simVars, fmtVars, askVars, campVars, addVars>>

\* evals[i] += evals[j]
HeapIAdd ==
    /\ \E i \in 1..Len(evals), j \in 1..Len(evals) :
         LET e == EvalIAdd(evals[i], evals[j]) IN
         /\ InRange(e)
         /\ evals' = [evals EXCEPT ![i] = e]
         /\ evalErr' = [exc |-> "none", op |-> "iadd", mismatch |-> FALSE]
    /\ UNCHANGED <<simVars, fmtVars, askVars, campVars, addVars>>

\* evals[i].mean(); the Eval is left as it is, and the outcome is kept with
\* the Eval it was computed from.
HeapMean ==
    /\ \E i \in 1..Len(evals) :
         LET r == Mean(evals[i]) IN
         evalErr' = [exc |-> r.exc, op |-> "mean", mismatch |-> FALSE,
                     of |-> evals[i], mean |-> r.val]
    /\ UNCHANGED <<evals, simVars, fmtVars, askVars, campVars, addVars>>

HeapNext == HeapNew \/ HeapAdd \/ HeapIAdd \/ HeapMean

SpecEval == HeapInit /\ [][HeapNext]_vars

----------------------------------------------------------------------------
(* Three Evals merged in the three groupings                               *)

MaxMergeScore == 1

\* Evals as eval_by_participant and eval_by_observer build them: scores
\* given, denominators defaulted.
BuiltEvals ==
    {EvalInit(<<>>, Some(m), None).val : m \in Maps((0 - MaxMergeScore)..MaxMergeScore)}

\* r1 + r2 where either operand may already be a raised exception.
AddResults(r1, r2) ==
    IF r1.exc # "none" THEN r1
    ELSE IF r2.exc # "none" THEN r2
    ELSE EvalAdd(r1.val, r2.val)

MergeInit ==
    /\ evals \in [1..3 -> BuiltEvals] /\ evalErr = Idle
    /\ simIn = Idle /\ simOut = Idle
    /\ fmtIn = Idle /\ fmtOut = Idle
    /\ dialogue_objs = <<>> /\ addCall = Idle
    /\ askIn = Idle /\ askOut = Idle
    /\ saved_dialogues = <<>> /\ saved_evalsum = <<>> /\ camp = Idle

\* (e1+e2)+e3, e1+(e2+e3) and e2+(e1+e3)
MergeCall ==
    /\ evalErr = Idle
    /\ LET e1 == Ok(evals[1])
           e2 == Ok(evals[2])
           e3 == Ok(evals[3])
       IN evalErr' = [exc |-> "done",
                      left    |-> AddResults(AddResults(e1, e2), e3),
                      right   |-> AddResults(e1, AddResults(e2, e3)),
                      swapped |-> AddResults(e2, AddResults(e1, e3))]
    /\ UNCHANGED <<evals, simVars, fmtVars, askVars, campVars, addVars>>

MergeNext == MergeCall

SpecMerge == MergeInit /\ [][MergeNext]_vars

----------------------------------------------------------------------------
(* Claims about Eval                                                       *)

\* C3: for all Evals e1, e2, e3 with integer scores, (e1+e2)+e3, e1+(e2+e3)
\* and e2+(e1+e3) all succeed and have the same scores and the same denoms.
C3_MergeAssocComm ==
    evalErr.exc = "done" =>
        /\ evalErr.left.exc = "none"
        /\ evalErr.right.exc = "none"
        /\ evalErr.swapped.exc = "none"
        /\ evalErr.left.val.scores = evalErr.right.val.scores
        /\ evalErr.left.val.scores = evalErr.swapped.val.scores
        /\ evalErr.left.val.denoms = evalErr.right.val.denoms
        /\ evalErr.left.val.denoms = evalErr.swapped.val.denoms

\* C4: every Eval built by the constructor and any sequence of + and +=
\* has the same keys in scores and in denoms, and a construction with
\* differing key sets fails with an error.
C4_ScoresDenomsSameKeys ==
    /\ \A i \in 1..Len(evals) : DOMAIN evals[i].scores = DOMAIN evals[i].denoms
    /\ (evalErr.exc # "idle" /\ evalErr.op = "init" /\ evalErr.mismatch)
           => evalErr.exc = "ValueError"

----------------------------------------------------------------------------
(* dialogue.py: format_as_messages                                         *)

\* turn[key] on a dict: the value, or KeyError when the key is missing.
TurnGet(turn, key) ==
    IF key \in DOMAIN turn THEN Ok(turn[key]) ELSE Raised("KeyError")

Message(role, content) == [role |-> role, content |-> content]

\* The content of the message made from one turn:
\*   f"{turn['role']}: {turn['content']}" if speaker_names else turn['content']
TurnContent(turn, speaker_names) ==
    IF speaker_names
    THEN LET who == TurnGet(turn, "role")
             what == TurnGet(turn, "content")
         IN  IF who.exc # "none" THEN who
             ELSE IF what.exc # "none" THEN what
             ELSE Ok(who.val \o ": " \o what.val)
    ELSE TurnGet(turn, "content")

\* for turn in d: openai_messages.append({'role': ..., 'content': ...})
RECURSIVE TurnMessages(_, _, _, _)
TurnMessages(d, speaker, speaker_names, acc) ==
    IF d = <<>> THEN Ok(acc)
    ELSE LET turn == Head(d)
             c == TurnContent(turn, speaker_names)
         IN  IF c.exc # "none" THEN c
             ELSE TurnMessages(Tail(d), speaker, speaker_names,
                      Append(acc, Message(IF turn.speaker = speaker
                                          THEN "assistant" ELSE "user", c.val)))

\* '\n\n'.join(contents)
RECURSIVE JoinBlank(_)
JoinBlank(contents) ==
    IF Len(contents) = 0 THEN ""
    ELSE IF Len(contents) = 1 THEN contents[1]
    ELSE contents[1] \o "\n\n" \o JoinBlank(Tail(contents))

\* f'"""\n{compressed}\n"""'
Wrap(compressed) == "\"\"\"\n" \o compressed \o "\n\"\"\""

\* The inner while loop: the first position after i whose message is not a
\* user message (positions count from 1 here).
RECURSIVE RunEnd(_, _)
RunEnd(msgs, j) ==
    IF j <= Len(msgs) /\ msgs[j].role = "user" THEN RunEnd(msgs, j + 1) ELSE j

\* The compression loop from position i on.
RECURSIVE Compress(_, _)
Compress(msgs, i) ==
    IF i > Len(msgs) THEN msgs
    ELSE IF msgs[i].role = "user"
         THEN LET j == RunEnd(msgs, i + 1)
                  compressed == JoinBlank([k \in 1..(j - i) |-> msgs[i + k - 1].content])
              IN  Compress(SubSeq(msgs, 1, i - 1)
                             \o <<Message("user", Wrap(compressed))>>
                             \o SubSeq(msgs, j, Len(msgs)),
                           i + 1)
         ELSE Compress(msgs, i + 1)

\* The whole of format_as_messages.  Optional arguments are None or Some(v).
format_as_messages(d, speaker, system, system_last, speaker_names, compress, tool, tool_name) ==
    LET speakers == Speakers(d) \cup {speaker}
        names == IF speaker_names.given THEN speaker_names.val
                 ELSE Cardinality(speakers) > 2
        comp  == IF compress.given THEN compress.val
                 ELSE Cardinality(speakers) > 2
        first == IF system.given THEN <<Message("system", system.val)>> ELSE <<>>
        turns == TurnMessages(d, speaker, names, first)
    IN  IF turns.exc # "none" THEN turns
        ELSE LET withLast == IF system_last.given
                             THEN Append(turns.val, Message("system", system_last.val))
                             ELSE turns.val
                 withTool == IF tool.given
                             THEN Append(withLast,
                                    IF tool_name.given
                                    THEN [role |-> "tool", content |-> tool.val,
                                          name |-> tool_name.val]
                                    ELSE Message("tool", tool.val))
                             ELSE withLast
             IN  Ok(IF comp THEN Compress(withTool, 1) ELSE withTool)

----------------------------------------------------------------------------
(* Inputs of the formatter                                                 *)

MaxFmtLen == 3

FmtSpeakers == {"A", "B", "C"}

\* The i-th turn of an input dialogue says "t<i>", so that turns can be told
\* apart in the output.
TurnText(i) == CASE i = 1 -> "t1" [] i = 2 -> "t2" [] i = 3 -> "t3"
                 [] i = 4 -> "t4" [] OTHER -> "t5"

FmtDialogues ==
    UNION {{[i \in 1..n |-> Turn(who[i], TurnText(i))] : who \in [1..n -> FmtSpeakers]}
           : n \in 0..MaxFmtLen}

OptBool == {NoneBool, Some(TRUE), Some(FALSE)}

FmtInputs == [d : FmtDialogues, speaker : FmtSpeakers,
              system : {NoneStr, Some("sys")}, system_last : {NoneStr, Some("last")},
              speaker_names : OptBool, compress : OptBool,
              tool : {NoneStr, Some("out")}, tool_name : {NoneStr, Some("calc")}]

FmtInit ==
    /\ fmtIn \in FmtInputs /\ fmtOut = Idle
    /\ dialogue_objs = <<>> /\ addCall = Idle
    /\ simIn = Idle /\ simOut = Idle
    /\ evals = <<>> /\ evalErr = Idle
    /\ askIn = Idle /\ askOut = Idle
    /\ saved_dialogues = <<>> /\ saved_evalsum = <<>> /\ camp = Idle

\* One call of format_as_messages on the drawn inputs.
FmtCall ==
    /\ fmtOut = Idle
    /\ fmtOut' = [exc |-> "done",
                  res |-> format_as_messages(fmtIn.d, fmtIn.speaker, fmtIn.system,
                              fmtIn.system_last, fmtIn.speaker_names,
                              fmtIn.compress, fmtIn.tool, fmtIn.tool_name)]
    /\ UNCHANGED <<fmtIn, simVars, heapVars, askVars, campVars, addVars>>

FmtNext == FmtCall

SpecFmt == FmtInit /\ [][FmtNext]_vars

----------------------------------------------------------------------------
(* Claims about format_as_messages                                         *)

FmtDone == fmtOut.exc = "done"

NoOverrides ==
    /\ ~fmtIn.system.given /\ ~fmtIn.system_last.given
    /\ ~fmtIn.speaker_names.given /\ ~fmtIn.compress.given
    /\ ~fmtIn.tool.given /\ ~fmtIn.tool_name.given

\* The content the unmerged role mapping gives turn i when names are marked.
Marked(d, i) == d[i].speaker \o ": " \o d[i].content

\* i..j is a maximal run of consecutive turns of d not spoken by speaker.
MaximalUserRun(d, speaker, i, j) ==
    /\ i <= j
    /\ \A k \in i..j : d[k].speaker # speaker
    /\ i = 1 \/ d[i - 1].speaker = speaker
    /\ j = Len(d) \/ d[j + 1].speaker = speaker

UserRuns(d, speaker) ==
    {r \in (1..Len(d)) \X (1..Len(d)) : MaximalUserRun(d, speaker, r[1], r[2])}

\* C5: on a dialogue with three distinct speakers and no option overrides,
\* format_as_messages returns without error; every maximal run of user
\* messages of the unmerged mapping has become exactly one user message that
\* wraps the run's contents joined by a blank line, and no two adjacent
\* messages of the result both have role user.
C5_ThreeSpeakersRunsMerged ==
    (FmtDone /\ NoOverrides /\ Cardinality(Speakers(fmtIn.d)) = 3) =>
        /\ fmtOut.res.exc = "none"
        /\ LET out == fmtOut.res.val
               d == fmtIn.d
               runs == UserRuns(d, fmtIn.speaker)
           IN  /\ \A k \in 1..(Len(out) - 1) :
                     ~(out[k].role = "user" /\ out[k + 1].role = "user")
               /\ Cardinality({k \in 1..Len(out) : out[k].role = "user"})
                     = Cardinality(runs)
               /\ \A r \in runs : \E k \in 1..Len(out) :
                     out[k] = Message("user",
                         Wrap(JoinBlank([n \in 1..(r[2] - r[1] + 1) |->
                                            Marked(d, r[1] + n - 1)])))

\* The messages the turns are mapped to are not merged.
Unmerged ==
    IF fmtIn.compress.given THEN ~fmtIn.compress.val
    ELSE Cardinality(Speakers(fmtIn.d) \cup {fmtIn.speaker}) <= 2

NamesMarked ==
    IF fmtIn.speaker_names.given THEN fmtIn.speaker_names.val
    ELSE Cardinality(Speakers(fmtIn.d) \cup {fmtIn.speaker}) > 2

\* C6: every turn of the given speaker is mapped to role assistant and every
\* other turn to role user, in turn order; with speaker names marked the
\* content is the turn's content prefixed with the turn's speaker name, and
\* otherwise it is the turn's content unchanged.
C6_RoleMapping ==
    (FmtDone /\ Unmerged) =>
        /\ fmtOut.res.exc = "none"
        /\ LET out == fmtOut.res.val
               d == fmtIn.d
               off == IF fmtIn.system.given THEN 1 ELSE 0
           IN  /\ Len(out) >= off + Len(d)
               /\ \A i \in 1..Len(d) :
                     /\ out[off + i].role =
                           (IF d[i].speaker = fmtIn.speaker THEN "assistant" ELSE "user")
                     /\ out[off + i].content =
                           (IF NamesMarked THEN Marked(d, i) ELSE d[i].content)

----------------------------------------------------------------------------
(* eval.py: eval_by_participant, eval_by_observer                          *)

\* research_team: the speaker who asks the evaluation questions.
research_team == "NLP class students"

\* Character(name, conversation_starters, persona); the persona text plays
\* no part here.
Character(name, starters) == [name |-> name, conversation_starters |-> starters]

\* judge = Character("Judge Wise", [], ...)
judge == Character("Judge Wise", <<>>)

\* The range of the participant's ratings (1-5) and of the observer's (1-10).
RatingLow == 1
RatingHigh == 5
SkilledHigh == 10

\* EvaluationAgent.ask: the asker's question and then the agent's answer are
\* appended to the dialogue.
Ask(agentName, d, asker, question, answer) ==
    DialogueAdd(DialogueAdd(d, asker, question), agentName, answer)

\* A variant of the participation test that is satisfied by either name alone.
BothParticipated_Either(name, other, dialogue) ==
    name \in Speakers(dialogue) \/ other \in Speakers(dialogue)

\* not {name, other} <= {turn['speaker'] for turn in dialogue}
BothParticipated(name, other, dialogue) == {name, other} \subseteq Speakers(dialogue)

\* scores[c] = v
DictPut(m, c, v) == [k \in DOMAIN m \cup {c} |-> IF k = c THEN v ELSE m[k]]

\* A variant of the rating step without the except clause: a rating that
\* fails to parse leaves the function.
TryRating_Fatal(st, c, outcome) ==
    IF st.exc # "none" THEN st
    ELSE LET called == Append(st.calls, "rating " \o c) IN
         IF outcome.exc = "none"
         THEN [exc |-> "none", scores |-> DictPut(st.scores, c, outcome.val), calls |-> called]
         ELSE [exc |-> outcome.exc, scores |-> st.scores, calls |-> called]

\* try: scores[c] = agent.rating(...)  except ValueError: pass
\* st is the state of the function so far: the exception that has left it (if
\* any), the scores and the calls made; outcome is what rating() does.
TryRating(st, c, outcome) ==
    IF st.exc # "none" THEN st
    ELSE LET called == Append(st.calls, "rating " \o c) IN
         IF outcome.exc = "none"
         THEN [exc |-> "none", scores |-> DictPut(st.scores, c, outcome.val), calls |-> called]
         ELSE IF outcome.exc = "ValueError"
              THEN [exc |-> "none", scores |-> st.scores, calls |-> called]
              ELSE [exc |-> outcome.exc, scores |-> st.scores, calls |-> called]

\* The whole of eval_by_participant.  answer is the agent's reply to the
\* warm-up question, outcomes[c] what agent.rating does on criterion c.  The
\* result comes with the calls made on the way.
eval_by_participant(participant, other, dialogue, answer, outcomes) ==
    LET name == participant.name IN
    IF ~BothParticipated(name, other, dialogue)
    THEN [res |-> Raised("ValueError"), calls |-> <<>>]
    ELSE LET d == Ask(name, <<>>, research_team, "warmup", answer)
             comments == [k \in {"overview"} |-> <<<<name, d[Len(d)].content>>>>]
             st0 == [exc |-> "none", scores |-> <<>>,
                     calls |-> <<"EvaluationAgent", "ask">>]
             st1 == TryRating(st0, "engaged", outcomes["engaged"])
             st2 == TryRating(st1, "informed", outcomes["informed"])
             st3 == TryRating(st2, "intelligent", outcomes["intelligent"])
             st4 == TryRating(st3, "moral", outcomes["moral"])
         IN  IF st4.exc # "none"
             THEN [res |-> Raised(st4.exc), calls |-> st4.calls]
             ELSE [res |-> EvalInit(comments, Some(st4.scores), None), calls |-> st4.calls]

\* The whole of eval_by_observer.
eval_by_observer(observer, other, dialogue, answer, outcomes) ==
    LET d == Ask(observer.name, <<>>, research_team, "warmup", answer)
        comments == [k \in {"mindopening"} |-> <<<<observer.name, d[Len(d)].content>>>>]
        st0 == [exc |-> "none", scores |-> <<>>,
                calls |-> <<"EvaluationAgent", "ask">>]
        st1 == TryRating(st0, "skilled", outcomes["skilled"])
    IN  IF st1.exc # "none"
        THEN [res |-> Raised(st1.exc), calls |-> st1.calls]
        ELSE [res |-> EvalInit(comments, Some(st1.scores), None), calls |-> st1.calls]

----------------------------------------------------------------------------
(* Inputs of the two evaluation routines                                   *)

MaxAskLen == 2

ParticipantCriteria == {"engaged", "informed", "intelligent", "moral"}
ObserverCriteria == {"skilled"}

\* What agent.rating(d, asker, question, low, high) can do: return the lowest
\* or the highest rating, or fail to parse the reply.
RatingOutcomes(low, high) == {Raised("ValueError"), Ok(low), Ok(high)}

AskSpeakers == {"Alice", "Bob", "Cara"}

AskDialogues ==
    UNION {{[i \in 1..n |-> Turn(who[i], TurnText(i))] : who \in [1..n -> AskSpeakers]}
           : n \in 0..MaxAskLen}

AskInputs == [participant : {Character("Bob", <<"X">>), Character("Cara", <<>>)},
              other : {"Alice", "Bob"},
              dialogue : AskDialogues]

AskInit ==
    /\ askIn \in AskInputs /\ askOut = Idle
    /\ simIn = Idle /\ simOut = Idle
    /\ fmtIn = Idle /\ fmtOut = Idle
    /\ dialogue_objs = <<>> /\ addCall = Idle
    /\ evals = <<>> /\ evalErr = Idle
    /\ saved_dialogues = <<>> /\ saved_evalsum = <<>> /\ camp = Idle

\* One call of eval_by_participant on the drawn inputs.
AskParticipant ==
    /\ askOut = Idle
    /\ \E outcomes \in [ParticipantCriteria -> RatingOutcomes(RatingLow, RatingHigh)] :
         LET r == eval_by_participant(askIn.participant, askIn.other,
                                      askIn.dialogue, "fine", outcomes)
         IN  askOut' = [exc |-> "done", fn |-> "eval_by_participant",
                        res |-> r.res, calls |-> r.calls, outcomes |-> outcomes]
    /\ UNCHANGED <<askIn, simVars, fmtVars, heapVars, campVars, addVars>>

\* One call of eval_by_observer, with the judge as the observer.
AskObserver ==
    /\ askOut = Idle
    /\ \E outcomes \in [ObserverCriteria -> RatingOutcomes(RatingLow, SkilledHigh)] :
         LET r == eval_by_observer(judge, askIn.other, askIn.dialogue, "fine", outcomes)
         IN  askOut' = [exc |-> "done", fn |-> "eval_by_observer",
                        res |-> r.res, calls |-> r.calls, outcomes |-> outcomes]
    /\ UNCHANGED <<askIn, simVars, fmtVars, heapVars, campVars, addVars>>

AskNext == AskParticipant \/ AskObserver

SpecAsk == AskInit /\ [][AskNext]_vars

----------------------------------------------------------------------------
(* Claims about eval_by_participant and eval_by_observer                   *)

AskDone == askOut.exc = "done"

Succeeded(outcomes) == {c \in DOMAIN outcomes : outcomes[c].exc = "none"}

Asked(calls) == {calls[i] : i \in 1..Len(calls)}

\* C9: a rating that fails to parse is never fatal: every rating question is
\* still asked, the keys of the returned Eval's scores are exactly the
\* criteria whose rating succeeded, each with the returned integer as score
\* and 1 as denominator, and the warm-up comment is present.
C9_RatingFailureNotFatal ==
    (AskDone /\ (askOut.fn = "eval_by_participant" =>
                    /\ askIn.participant.name \in Speakers(askIn.dialogue)
                    /\ askIn.other \in Speakers(askIn.dialogue))) =>
        /\ askOut.res.exc = "none"
        /\ LET e == askOut.res.val
               o == askOut.outcomes
               key == IF askOut.fn = "eval_by_participant" THEN "overview" ELSE "mindopening"
               who == IF askOut.fn = "eval_by_participant" THEN askIn.participant.name
                      ELSE judge.name
           IN  /\ \A c \in DOMAIN o : ("rating " \o c) \in Asked(askOut.calls)
               /\ DOMAIN e.scores = Succeeded(o)
               /\ DOMAIN e.denoms = Succeeded(o)
               /\ \A c \in Succeeded(o) : e.scores[c] = o[c].val /\ e.denoms[c] = 1
               /\ key \in DOMAIN e.comments
               /\ e.comments[key] = <<<<who, "fine">>>>

\* A call of eval_by_participant whose first rating failed to parse and whose
\* last rating succeeded.
C9_Witness ==
    /\ AskDone /\ askOut.fn = "eval_by_participant"
    /\ askOut.res.exc = "none"
    /\ askOut.outcomes["engaged"].exc = "ValueError"
    /\ askOut.outcomes["moral"].exc = "none"
    /\ DOMAIN askOut.res.val.scores = {"informed", "moral"}

\* C10: eval_by_participant fails with the precondition error whenever
\* participant.name or other is not a speaker of the dialogue, and it does so
\* before wrapping the participant as an evaluation agent or asking anything.
C10_PreconditionFirst ==
    (/\ AskDone /\ askOut.fn = "eval_by_participant"
     /\ \/ askIn.participant.name \notin Speakers(askIn.dialogue)
        \/ askIn.other \notin Speakers(askIn.dialogue)) =>
        /\ askOut.res.exc = "ValueError"
        /\ askOut.calls = <<>>

\* A call of eval_by_participant on a dialogue in which only one of the two
\* names speaks.
C10_Witness ==
    /\ AskDone /\ askOut.fn = "eval_by_participant"
    /\ askIn.participant.name \in Speakers(askIn.dialogue)
    /\ askIn.other \notin Speakers(askIn.dialogue)
    /\ askOut.res.exc = "ValueError"

----------------------------------------------------------------------------
(* eval.py: eval_on_characters                                             *)

\* CharacterAgent(char): an agent speaking under the character's name that
\* exposes the character's conversation starters.
CharacterAgent(char) == Agent(char.name, ListAttr(char.conversation_starters))

\* Eval()
EmptyEval == EvalInit(<<>>, None, None).val

\* del m[k] (when present) and m[k] = v on a dict.
DictDel(m, k) == [x \in DOMAIN m \ {k} |-> m[x]]

\* The body of the loop up to the evaluation e of one trial:
\*   d = simulated_dialogue(argubot, CharacterAgent(char), turns)
\*   e = eval_by_participant(char, argubot.name, d)
\*       + eval_by_observer(judge, argubot.name, d)
\* o holds what the random choice, the agents and the ratings do in the trial.
Trial(argubot, char, turns, o) ==
    LET sim == simulated_dialogue(argubot, CharacterAgent(char), turns, <<>>, TRUE,
                                  o.pick, o.replies)
        none == [exc |-> "none", where |-> "", d |-> <<>>, e |-> EmptyEval]
    IN  IF sim.exc # "none"
        THEN [none EXCEPT !.exc = sim.exc, !.where = "simulated_dialogue"]
        ELSE LET p == eval_by_participant(char, argubot.name, sim.val, "fine", o.participant).res
             IN  IF p.exc # "none"
                 THEN [none EXCEPT !.exc = p.exc, !.where = "eval_by_participant"]
                 ELSE LET b == eval_by_observer(judge, argubot.name, sim.val, "fine", o.observer).res
                      IN  IF b.exc # "none"
                          THEN [none EXCEPT !.exc = b.exc, !.where = "eval_by_observer"]
                          ELSE LET e == EvalAdd(p.val, b.val) IN
                               IF e.exc # "none"
                               THEN [none EXCEPT !.exc = e.exc, !.where = "Eval.__add__"]
                               ELSE [none EXCEPT !.d = sim.val, !.e = e.val]

\* The number of trials of a campaign.
Trials(c) == Len(c.chars) * c.reps

\* A variant of the loop in which a trial that raises is skipped and the loop
\* goes on with the next trial.
AfterTrial_SkipFailed(c, r) ==
    LET c1 == IF r.exc # "none"
              THEN [c EXCEPT !.k = @ + 1]
              ELSE [c EXCEPT !.de_list = Append(@, <<r.d, r.e>>),
                             !.e_sum = EvalIAdd(@, r.e),
                             !.k = @ + 1]
    IN  IF c1.k = Trials(c1) THEN [c1 EXCEPT !.pc = "returned"] ELSE c1

\* The rest of the loop body and the loop control, given the outcome r of the
\* trial: an exception leaves eval_on_characters; otherwise
\*   de_list.append((d,e)); e_sum += e
\* and the function returns after the last trial.
AfterTrial(c, r) ==
    IF r.exc # "none"
    THEN [c EXCEPT !.pc = "raised", !.exc = r.exc, !.where = r.where]
    ELSE LET c1 == [c EXCEPT !.de_list = Append(@, <<r.d, r.e>>),
                             !.e_sum = EvalIAdd(@, r.e),
                             !.k = @ + 1]
         IN  IF c1.k = Trials(c1) THEN [c1 EXCEPT !.pc = "returned"] ELSE c1

----------------------------------------------------------------------------
(* Campaigns                                                               *)

MaxChars == 2
MaxReps == 2
MaxCampTurns == 2

\* The argubots that may have a record, and the one that is evaluated.
CampBots == {Agent("Alice", AbsentAttr), Agent("Airhead", AbsentAttr)}
Argubots == {Agent("Alice", AbsentAttr)}
CampChars == {Character("Bob", <<"X">>), Character("Cara", <<>>),
              Character("Dana", <<"Y">>)}

\* What can happen in one trial: the agents' replies, and the ratings, which
\* all succeed, or fail to parse on "engaged" and on "skilled".
RatingScripts ==
    {[participant |-> [c \in ParticipantCriteria |-> Ok(RatingLow)],
      observer    |-> [c \in ObserverCriteria |-> Ok(SkilledHigh)]],
     [participant |-> [c \in ParticipantCriteria |->
                          IF c = "engaged" THEN Raised("ValueError") ELSE Ok(RatingHigh)],
      observer    |-> [c \in ObserverCriteria |-> Raised("ValueError")]]}

TrialOracles(turns) ==
    {[pick |-> 1, replies |-> rs, participant |-> s.participant, observer |-> s.observer]
        : rs \in SeqsOfLen({"r1"}, turns), s \in RatingScripts}

\* The record an earlier campaign of the bot has left: one trial against Bob.
OldTrial(bot) ==
    Trial(bot, Character("Bob", <<"X">>), 2,
          [pick |-> 1, replies |-> <<"r1", "r1">>,
           participant |-> [c \in ParticipantCriteria |-> Ok(RatingLow)],
           observer |-> [c \in ObserverCriteria |-> Ok(SkilledHigh)]])
OldDeList(bot) == <<<<OldTrial(bot).d, OldTrial(bot).e>>>>
OldEvalSum(bot) == EvalIAdd(EmptyEval, OldTrial(bot).e)

BotOf(name) == CHOOSE b \in CampBots : b.name = name

CampInit ==
    /\ \E names \in SUBSET {b.name : b \in CampBots} :
         /\ saved_dialogues = [n \in names |-> OldDeList(BotOf(n))]
         /\ saved_evalsum = [n \in names |-> OldEvalSum(BotOf(n))]
    /\ \E bot \in Argubots, chars \in SeqsUpTo(CampChars, MaxChars),
          turns \in 0..MaxCampTurns, reps \in 0..MaxReps :
         camp = [pc |-> "idle", argubot |-> bot, chars |-> chars, turns |-> turns,
                 reps |-> reps, k |-> 0, de_list |-> <<>>, e_sum |-> EmptyEval,
                 exc |-> "none", where |-> "", last |-> [exc |-> "none", where |-> ""],
                 before |-> DOMAIN saved_dialogues]
    /\ simIn = Idle /\ simOut = Idle
    /\ fmtIn = Idle /\ fmtOut = Idle
    /\ dialogue_objs = <<>> /\ addCall = Idle
    /\ evals = <<>> /\ evalErr = Idle
    /\ askIn = Idle /\ askOut = Idle

\* saved_dialogues[argubot.name] = de_list; saved_evalsum[argubot.name] = e_sum
\* once the loop is over, and nothing before.
Saved(c, dialogues, evalsum) ==
    IF c.pc = "returned"
    THEN [dialogues |-> DictPut(dialogues, c.argubot.name, c.de_list),
          evalsum |-> DictPut(evalsum, c.argubot.name, c.e_sum)]
    ELSE [dialogues |-> dialogues, evalsum |-> evalsum]

\* The call of eval_on_characters up to the loop: the records of the argubot
\* are deleted, de_list and e_sum start empty.  Without any trial to run the
\* function saves and returns at once.
CampStart ==
    /\ camp.pc = "idle"
    /\ LET name == camp.argubot.name
           c == [camp EXCEPT !.pc = IF Trials(camp) = 0 THEN "returned" ELSE "loop",
                             !.de_list = <<>>, !.e_sum = EmptyEval]
           s == Saved(c, DictDel(saved_dialogues, name), DictDel(saved_evalsum, name))
       IN  /\ camp' = c
           /\ saved_dialogues' = s.dialogues
           /\ saved_evalsum' = s.evalsum
    /\ UNCHANGED <<simVars, fmtVars, heapVars, askVars, addVars>>

\* One iteration of the loop; the last one also saves and returns.  last
\* tells how the trial of the iteration ended.
CampTrial ==
    /\ camp.pc = "loop"
    /\ \E o \in TrialOracles(camp.turns) :
         LET char == camp.chars[(camp.k \div camp.reps) + 1]
             r == Trial(camp.argubot, char, camp.turns, o)
             c == AfterTrial([camp EXCEPT !.last = [exc |-> r.exc, where |-> r.where]], r)
             s == Saved(c, saved_dialogues, saved_evalsum)
         IN  /\ camp' = c
             /\ saved_dialogues' = s.dialogues
             /\ saved_evalsum' = s.evalsum
    /\ UNCHANGED <<simVars, fmtVars, heapVars, askVars, addVars>>

CampNext == CampStart \/ CampTrial

SpecCamp == CampInit /\ [][CampNext]_vars

----------------------------------------------------------------------------
(* Claims about eval_on_characters                                         *)

\* The trial of the last iteration failed the precondition of
\* eval_by_participant.
PreconditionViolated ==
    camp.last.exc = "ValueError" /\ camp.last.where = "eval_by_participant"

\* The records of the other argubots are the ones they had before the call
\* (camp.before holds the names that had a record then).
OtherRecordsKept ==
    \A n \in {b.name : b \in CampBots} \ {camp.argubot.name} :
        /\ n \in DOMAIN saved_dialogues <=> n \in camp.before
        /\ n \in DOMAIN saved_evalsum <=> n \in camp.before
        /\ n \in DOMAIN saved_dialogues => saved_dialogues[n] = OldDeList(BotOf(n))
        /\ n \in DOMAIN saved_evalsum => saved_evalsum[n] = OldEvalSum(BotOf(n))

\* C7 as stated: a precondition violation in one trial aborts only that
\* trial, and the campaign loop goes on with the remaining characters and
\* repetitions.
C7_OnlyTheTrialAborted ==
    PreconditionViolated => camp.pc \in {"loop", "returned"}

\* C7 as amended: a precondition violation in one trial is not caught by the
\* campaign loop; the ValueError leaves eval_on_characters, the remaining
\* trials are not run, and nothing is stored under the argubot's name (its
\* earlier record was deleted at the start); other records are untouched.
C7_ViolationAbortsCampaign ==
    PreconditionViolated =>
        /\ camp.pc = "raised" /\ camp.exc = "ValueError"
        /\ camp.k < Trials(camp)
        /\ Len(camp.de_list) = camp.k
        /\ camp.argubot.name \notin DOMAIN saved_dialogues
        /\ camp.argubot.name \notin DOMAIN saved_evalsum
        /\ OtherRecordsKept

\* A campaign of several trials, of an argubot with an earlier record, whose
\* first trial violated the precondition.
C7_Witness ==
    /\ PreconditionViolated
    /\ camp.pc = "raised"
    /\ Trials(camp) >= 2
    /\ camp.argubot.name \in camp.before

AllCriteria == ParticipantCriteria \cup ObserverCriteria

\* The sum of the counts of key over the Evals of a list of (dialogue, Eval)
\* pairs; field picks the scores or the denoms of an Eval.
RECURSIVE SumOver(_, _, _)
SumOver(pairs, key, field) ==
    IF pairs = <<>> THEN 0
    ELSE Get(Head(pairs)[2][field], key) + SumOver(Tail(pairs), key, field)

\* C8: after eval_on_characters has completed, saved_dialogues[agent.name]
\* holds len(chars)*reps (dialogue, Eval) pairs in trial order, and
\* saved_evalsum[agent.name], the returned Eval, has the per-key sums of the
\* scores and denoms of those Evals; the record replaces any earlier one of
\* the name and the records of other names are unchanged.
C8_CampaignRecords ==
    camp.pc = "returned" =>
        /\ camp.argubot.name \in DOMAIN saved_dialogues
        /\ camp.argubot.name \in DOMAIN saved_evalsum
        /\ LET pairs == saved_dialogues[camp.argubot.name]
               total == saved_evalsum[camp.argubot.name]
           IN  /\ Len(pairs) = Len(camp.chars) * camp.reps
               /\ \A i \in 1..Len(pairs) :
                     LET char == camp.chars[((i - 1) \div camp.reps) + 1] IN
                     /\ Speakers(pairs[i][1]) = {camp.argubot.name, char.name}
                     /\ Len(pairs[i][1]) = camp.turns
                     /\ pairs[i][2].comments["overview"] = <<<<char.name, "fine">>>>
               /\ total = camp.e_sum
               /\ DOMAIN total.scores \subseteq AllCriteria
               /\ DOMAIN total.denoms \subseteq AllCriteria
               /\ \A key \in AllCriteria :
                     /\ Get(total.scores, key) = SumOver(pairs, key, "scores")
                     /\ Get(total.denoms, key) = SumOver(pairs, key, "denoms")
        /\ OtherRecordsKept

\* A completed campaign against two different characters, one of whose
\* ratings failed to parse, of an argubot that had an earlier record, beside
\* the record of another argubot.
C8_Witness ==
    /\ camp.pc = "returned"
    /\ Len(camp.chars) = 2 /\ camp.chars[1] # camp.chars[2]
    /\ Len(saved_dialogues[camp.argubot.name]) >= 2
    /\ camp.before = {b.name : b \in CampBots}
    /\ saved_dialogues[camp.argubot.name] # OldDeList(camp.argubot)
    /\ Get(saved_evalsum[camp.argubot.name].denoms, "engaged") = 1
    /\ Get(saved_evalsum[camp.argubot.name].denoms, "moral") >= 2

----------------------------------------------------------------------------
(* Claims about Eval.mean                                                  *)

\* C11: in every Eval built by the constructor and any sequence of + and +=
\* every key of scores has a denominator of at least 1, so that mean() never
\* divides by zero, and mean()['TOTAL'] is the sum of all other entries of
\* the mapping mean() returns.
C11_DenomsPositiveMeanTotal ==
    /\ \A i \in 1..Len(evals) :
          \A k \in DOMAIN evals[i].scores : Get(evals[i].denoms, k) >= 1
    /\ (evalErr.exc # "idle" /\ evalErr.op = "mean") =>
          /\ evalErr.exc = "none"
          /\ "TOTAL" \in DOMAIN evalErr.mean
          /\ evalErr.mean["TOTAL"] =
                FracSum(evalErr.mean, DOMAIN evalErr.mean \ {"TOTAL"})

----------------------------------------------------------------------------
(* Dialogue objects built by add                                           *)

\* Dialogues are tuples of at most MaxAddLen turns to begin with, and at most
\* MaxDialogues Dialogue objects are alive at a time.
MaxAddLen == 1
MaxDialogues == 3

AddSpeakers == {"Alice", "Bob"}
AddContents == {"hi", "bye"}
AddTurns == {Turn(s, c) : s \in AddSpeakers, c \in AddContents}

\* dialogue_objs is the sequence of the Dialogue objects alive; addCall is the
\* last call of add: its receiver, the receiver's turns before the call, its
\* arguments and the object it returned.
AddInit ==
    /\ \E d \in SeqsUpTo(AddTurns, MaxAddLen) : dialogue_objs = <<d>>
    /\ addCall = Idle
    /\ simIn = Idle /\ simOut = Idle
    /\ fmtIn = Idle /\ fmtOut = Idle
    /\ evals = <<>> /\ evalErr = Idle
    /\ askIn = Idle /\ askOut = Idle
    /\ saved_dialogues = <<>> /\ saved_evalsum = <<>> /\ camp = Idle

\* dialogue_objs[self].add(speaker, content): the object returned is a new one,
\* and no statement of add assigns to the receiver.
AddCall ==
    /\ Len(dialogue_objs) < MaxDialogues
    /\ \E self \in 1..Len(dialogue_objs), speaker \in AddSpeakers, content \in AddContents :
         /\ dialogue_objs' = Append(dialogue_objs, DialogueAdd(dialogue_objs[self], speaker, content))
         /\ addCall' = [exc |-> "done", self |-> self, before |-> dialogue_objs[self],
                        speaker |-> speaker, content |-> content,
                        res |-> Len(dialogue_objs) + 1]
    /\ UNCHANGED <<simVars, fmtVars, heapVars, askVars, campVars>>

AddNext == AddCall

SpecAdd == AddInit /\ [][AddNext]_vars

\* C12: d.add(speaker, content) returns a Dialogue of length len(d)+1 whose
\* first len(d) turns are d's turns in order and whose last turn is
\* {speaker, content}, and d has the same turns after the call as before.
C12_AddAppendsAndKeepsReceiver ==
    addCall.exc = "done" =>
        LET d   == addCall.before
            res == dialogue_objs[addCall.res]
        IN  /\ Len(res) = Len(d) + 1
            /\ SubSeq(res, 1, Len(d)) = d
            /\ res[Len(res)] = [speaker |-> addCall.speaker, content |-> addCall.content]
            /\ dialogue_objs[addCall.self] = d

\* add was called on a Dialogue that has a turn already, with a turn that
\* differs from it.
C12_Witness ==
    /\ addCall.exc = "done"
    /\ Len(addCall.before) >= 1
    /\ addCall.before[1] # Turn(addCall.speaker, addCall.content)
    /\ Len(dialogue_objs[addCall.res]) = Len(addCall.before) + 1

----------------------------------------------------------------------------
(* Claims about the order of the speakers in simulated_dialogue            *)

\* The turns of d after the first n.
TurnsAfter(d, n) == SubSeq(d, n + 1, Len(d))

\* The speakers of the turns ts are a, b, a, ... in this order.
Alternates(ts, a, b) ==
    \A i \in 1..Len(ts) : ts[i].speaker = IF i % 2 = 1 THEN a.name ELSE b.name

\* C13: with agents whose respond appends one turn under their own name,
\* simulated_dialogue(a, b, n, prefix) returns a dialogue that has prefix,
\* unchanged, as its leading turns, and the speakers of the turns after the
\* prefix are a.name, b.name, a.name, ... starting with a.name, whether the
\* first of these turns is an injected conversation starter or not.
C13_PrefixKeptSpeakersAlternate ==
    SimDone =>
        /\ simOut.res.exc = "none"
        /\ Len(simOut.res.val) >= Len(simIn.prefix)
        /\ SubSeq(simOut.res.val, 1, Len(simIn.prefix)) = simIn.prefix
        /\ Alternates(TurnsAfter(simOut.res.val, Len(simIn.prefix)), simIn.a, simIn.b)

====
